---- MODULE Spec2Model ----
(***************************************************************************)
(* Model of the BIAnalysis program: the command line entry point           *)
(* (src/main.py) and the BIAnalysis class (src/src/BIAnalsysis.py).        *)
(*                                                                         *)
(* Text is modelled as sequences of one-character strings, so that         *)
(* str.split, float() and int() are computed as Python computes them.      *)
(* Floating point numbers are modelled as records                          *)
(*     [k |-> "fin", v |-> n]   the real n / SC (fixed point),             *)
(*     [k |-> "inf", v |-> 1]   +inf,  [k |-> "inf", v |-> -1]  -inf,      *)
(*     [k |-> "nan", v |-> 0]   NaN,                                       *)
(* with Python float arithmetic raising ZeroDivisionError and numpy        *)
(* float64 arithmetic yielding inf / nan, as the two do.                   *)
(***************************************************************************)
EXTENDS Integers, Sequences, FiniteSets, TLC

(***************************************************************************)
(* Bounds of the model.                                                    *)
(***************************************************************************)
\* largest number of sample rows written into an input file
MaxSamples == 3
\* largest number of calls of get_summary made on a constructed analysis
MaxCalls == 2

(***************************************************************************)
(* Text: characters, str.split, str.strip.                                 *)
(***************************************************************************)
Digit == {"0", "1", "2", "3", "4", "5", "6", "7", "8", "9"}
Whitespace == {" ", "\t"}

DigitVal(c) ==
    CASE c = "0" -> 0 [] c = "1" -> 1 [] c = "2" -> 2 [] c = "3" -> 3
      [] c = "4" -> 4 [] c = "5" -> 5 [] c = "6" -> 6 [] c = "7" -> 7
      [] c = "8" -> 8 [] c = "9" -> 9

\* s.split(sep) for a one-character separator: the pieces between the
\* separators, empty pieces kept; always at least one piece.
RECURSIVE SplitFrom(_, _, _, _, _)
SplitFrom(s, sep, i, cur, acc) ==
    IF i > Len(s) THEN Append(acc, cur)
    ELSE IF s[i] = sep THEN SplitFrom(s, sep, i + 1, <<>>, Append(acc, cur))
    ELSE SplitFrom(s, sep, i + 1, Append(cur, s[i]), acc)

Split(s, sep) == SplitFrom(s, sep, 1, <<>>, <<>>)

\* s.strip(): leading and trailing whitespace removed (float() and int()
\* strip their argument before reading it).
Strip(s) ==
    LET keep == {i \in 1..Len(s) : s[i] \notin Whitespace}
    IN  IF keep = {} THEN <<>>
        ELSE LET lo == CHOOSE i \in keep : \A j \in keep : i <= j
                 hi == CHOOSE i \in keep : \A j \in keep : j <= i
             IN  SubSeq(s, lo, hi)

(***************************************************************************)
(* Numbers.                                                                *)
(***************************************************************************)
\* fixed-point scale of a finite float: v stands for v / SC
SC == 10 * 10

Fin(n) == [k |-> "fin", v |-> n]
NaN == [k |-> "nan", v |-> 0]
PosInf == [k |-> "inf", v |-> 1]
NegInf == [k |-> "inf", v |-> -1]
IsFin(x) == x.k = "fin"
IsNaN(x) == x.k = "nan"
IsInf(x) == x.k = "inf"
Sign(n) == IF n > 0 THEN 1 ELSE IF n < 0 THEN -1 ELSE 0
SignOf(x) == IF IsNaN(x) THEN 0 ELSE Sign(x.v)
Abs(n) == IF n < 0 THEN -n ELSE n

\* floor(a * b / c) for b >= 0, c > 0, without forming a * b
MulDiv(a, b, c) == (a \div c) * b + ((a % c) * b) \div c

\* fixed-point product and quotient of two finite values (q # 0)
FxMul(p, q) == IF q >= 0 THEN MulDiv(p, q, SC) ELSE -MulDiv(p, -q, SC)
FxDiv(p, q) == IF q > 0 THEN MulDiv(p, SC, q) ELSE -MulDiv(p, SC, -q)

\* integer square and cube roots (floor), by bisection
RECURSIVE RootIn(_, _, _, _)
RootIn(n, e, lo, hi) ==
    IF lo >= hi THEN lo
    ELSE LET mid == (lo + hi + 1) \div 2
             pw == IF e = 2 THEN mid * mid ELSE mid * mid * mid
         IN  IF pw <= n THEN RootIn(n, e, mid, hi) ELSE RootIn(n, e, lo, mid - 1)

ISqrt(n) == RootIn(n, 2, 0, 46340)
ICbrt(n) == RootIn(n, 3, 0, 1290)

\* the value of a literal coefficient num / 10000 of the source on the grid
Lit(num) == MulDiv(num, SC, 10000)

RECURSIVE DigitsVal(_)
DigitsVal(ds) ==
    IF ds = <<>> THEN 0
    ELSE 10 * DigitsVal(SubSeq(ds, 1, Len(ds) - 1)) + DigitVal(ds[Len(ds)])

AllDigits(ds) == \A i \in 1..Len(ds) : ds[i] \in Digit

Ok(val) == [err |-> "none", val |-> val]
Raise(name) == [err |-> name, val |-> <<>>]

\* the sign and the unsigned rest of a stripped numeric token
Signed(t) ==
    IF t # <<>> /\ t[1] \in {"-", "+"}
    THEN [sgn |-> IF t[1] = "-" THEN -1 ELSE 1, body |-> Tail(t)]
    ELSE [sgn |-> 1, body |-> t]

\* float(tok): optional whitespace, optional sign, digits with an optional
\* decimal point; anything else is a ValueError.  The value is kept to the
\* fixed-point grid (two decimals).
ParseFloat(tok) ==
    LET st    == Signed(Strip(tok))
        parts == Split(st.body, ".")
        ip    == parts[1]
        fp    == IF Len(parts) = 2 THEN parts[2] ELSE <<>>
        f1    == IF Len(fp) >= 1 THEN DigitVal(fp[1]) ELSE 0
        f2    == IF Len(fp) >= 2 THEN DigitVal(fp[2]) ELSE 0
    IN  IF /\ Len(parts) <= 2
           /\ AllDigits(ip) /\ AllDigits(fp)
           /\ Len(ip) + Len(fp) >= 1
        THEN Ok(Fin(st.sgn * (DigitsVal(ip) * SC + f1 * (SC \div 10) + f2 * (SC \div 100))))
        ELSE Raise("ValueError")

\* int(tok): optional whitespace, optional sign, digits; anything else
\* (a decimal point included) is a ValueError.  The value is an integer.
ParseInt(tok) ==
    LET st == Signed(Strip(tok))
    IN  IF Len(st.body) >= 1 /\ AllDigits(st.body)
        THEN Ok(st.sgn * DigitsVal(st.body))
        ELSE Raise("ValueError")

(***************************************************************************)
(* numpy float64 arithmetic: no exception, inf and nan instead.            *)
(***************************************************************************)
NpNeg(x) == IF IsNaN(x) THEN NaN ELSE [k |-> x.k, v |-> -x.v]

NpAdd(x, y) ==
    IF IsNaN(x) \/ IsNaN(y) THEN NaN
    ELSE IF IsInf(x) /\ IsInf(y) THEN (IF x.v = y.v THEN x ELSE NaN)
    ELSE IF IsInf(x) THEN x
    ELSE IF IsInf(y) THEN y
    ELSE Fin(x.v + y.v)

NpSub(x, y) == NpAdd(x, NpNeg(y))

NpMul(x, y) ==
    IF IsNaN(x) \/ IsNaN(y) THEN NaN
    ELSE IF IsInf(x) \/ IsInf(y)
         THEN (IF SignOf(x) * SignOf(y) = 0 THEN NaN
               ELSE [k |-> "inf", v |-> SignOf(x) * SignOf(y)])
    ELSE Fin(FxMul(x.v, y.v))

NpDiv(x, y) ==
    IF IsNaN(x) \/ IsNaN(y) THEN NaN
    ELSE IF IsInf(x) /\ IsInf(y) THEN NaN
    ELSE IF IsInf(x) THEN [k |-> "inf", v |-> x.v * (IF y.v < 0 THEN -1 ELSE 1)]
    ELSE IF IsInf(y) THEN Fin(0)
    ELSE IF y.v = 0 THEN (IF x.v = 0 THEN NaN ELSE [k |-> "inf", v |-> Sign(x.v)])
    ELSE Fin(FxDiv(x.v, y.v))

\* np.sqrt: nan for a negative argument
NpSqrt(x) ==
    IF IsNaN(x) THEN NaN
    ELSE IF x.v < 0 THEN NaN
    ELSE IF IsInf(x) THEN PosInf
    ELSE Fin(ISqrt(x.v * SC))

\* np.power(x, 2/3): nan for a negative finite base.  The cube root is taken
\* to one decimal and squared.
NpPow23(x) ==
    IF IsNaN(x) THEN NaN
    ELSE IF IsInf(x) THEN PosInf
    ELSE IF x.v < 0 THEN NaN
    ELSE LET c == ICbrt(x.v * (1000 \div SC)) IN Fin(c * c)

\* np.mean of a sequence of finite values; nan for an empty one
RECURSIVE SumV(_)
SumV(xs) == IF xs = <<>> THEN 0 ELSE xs[1].v + SumV(Tail(xs))

NpMean(xs) == IF xs = <<>> THEN NaN ELSE Fin(SumV(xs) \div Len(xs))

(***************************************************************************)
(* BIAnalysis: the methods, as operators on the values they read.          *)
(* A method that can raise returns Ok(value) or Raise(exception name).     *)
(***************************************************************************)
\* f.read().split('\n')
read_file(content) == Split(content, "\n")

\* data[n].split(' ')[1], n counted from 0 as in the source
SecondField(data, n) ==
    IF Len(data) < n + 1 THEN Raise("IndexError")
    ELSE LET parts == Split(data[n + 1], " ")
         IN  IF Len(parts) < 2 THEN Raise("IndexError") ELSE Ok(parts[2])

\* float(data[n].split(' ')[1]) and int(data[n].split(' ')[1])
FloatField(data, n) ==
    LET t == SecondField(data, n) IN IF t.err # "none" THEN t ELSE ParseFloat(t.val)

IntField(data, n) ==
    LET t == SecondField(data, n) IN IF t.err # "none" THEN t ELSE ParseInt(t.val)

\* (mutant) data[13:] : the final line is taken as a sample too
extract_impedance_data_all(data) ==
    LET n == IF Len(data) > 13 THEN Len(data) - 13 ELSE 0
    IN  [i \in 1..n |-> Split(data[13 + i], ",")]

\* [line.split(',') for line in data[13:-1]]
extract_impedance_data(data) ==
    LET n == IF Len(data) > 14 THEN Len(data) - 14 ELSE 0
    IN  [i \in 1..n |-> Split(data[13 + i], ",")]

\* weight / ((height / 100) ** 2) on Python floats
calculate_bmi(height, weight) ==
    LET m  == FxDiv(height.v, 100 * SC)
        m2 == FxMul(m, m)
    IN  IF m2 = 0 THEN Raise("ZeroDivisionError") ELSE Ok(Fin(FxDiv(weight.v, m2)))

\* what float(sample[1]), float(sample[2]) raise for one sample, if anything
SampleErr(sample) ==
    IF Len(sample) < 2 THEN "IndexError"
    ELSE IF ParseFloat(sample[2]).err # "none" THEN ParseFloat(sample[2]).err
    ELSE IF Len(sample) < 3 THEN "IndexError"
    ELSE ParseFloat(sample[3]).err

get_freq_react_data(impedance_data) ==
    LET bad == {i \in 1..Len(impedance_data) : SampleErr(impedance_data[i]) # "none"}
    IN  IF bad # {}
        THEN Raise(SampleErr(impedance_data[CHOOSE i \in bad : \A j \in bad : i <= j]))
        ELSE Ok([freq  |-> [i \in 1..Len(impedance_data) |-> ParseFloat(impedance_data[i][2]).val],
                 react |-> [i \in 1..Len(impedance_data) |-> ParseFloat(impedance_data[i][3]).val]])

\* np.sqrt((self.freq - xc) ** 2 + (self.react - yc) ** 2), elementwise
calc_R(freq, react, xc, yc) ==
    [i \in 1..Len(freq) |->
        LET dx == NpSub(freq[i], xc)
            dy == NpSub(react[i], yc)
        IN  NpSqrt(NpAdd(NpMul(dx, dx), NpMul(dy, dy)))]

\* Ri - Ri.mean()
f_2(freq, react, c) ==
    LET Ri == calc_R(freq, react, c[1], c[2])
    IN  [i \in 1..Len(Ri) |-> NpSub(Ri[i], NpMean(Ri))]

RECURSIVE SumSq(_)
SumSq(res) == IF res = <<>> THEN 0 ELSE res[1].v * res[1].v + SumSq(Tail(res))

(***************************************************************************)
(* scipy.optimize.leastsq(self.f_2, center_estimate), without full_output: *)
(* returns (x, ier).  It raises TypeError when there are fewer residuals   *)
(* than the two parameters.  ier in 1..4 means a solution was found; any   *)
(* other value means it was not, and x is then whatever iterate the solver *)
(* stopped at.  The solver searches the plane; the model lets it search    *)
(* the grid Centers and the initial estimate, a found solution being a     *)
(* point of least sum of squared residuals.                                *)
(***************************************************************************)
Pt(x, y) == <<Fin(x * SC), Fin(y * SC)>>

Centers == {Pt(10, -3), Pt(10, 13), Pt(10, -5), Pt(3, -3), Pt(4, -3)}

IerValues == 0..8
Converged == 1..4

leastsq(freq, react, x0) ==
    IF Len(freq) < 2 THEN {Raise("TypeError")}
    ELSE LET Cand == Centers \cup {x0}
             cost(c) == SumSq(f_2(freq, react, c))
             best == {c \in Cand : \A d \in Cand : cost(c) <= cost(d)}
         IN  {Ok([x |-> c, ier |-> i]) :
                 <<c, i>> \in {ci \in Cand \X IerValues : ci[2] \in Converged => ci[1] \in best}}

\* calculate_radius: the set of results the solver's outcomes allow
calculate_radius(freq, react) ==
    LET x_m == NpMean(freq)
        center_estimate == <<x_m, Fin(0)>>
    IN  {IF s.err # "none" THEN s
         ELSE LET center == s.val.x
                  Ri == calc_R(freq, react, center[1], center[2])
                  R == NpMean(Ri)
              IN  Ok([radius |-> R, center |-> center, ier |-> s.val.ier]) :
         s \in leastsq(freq, react, center_estimate)}

\* calculate_ffm: Python float arithmetic per sample, then np.mean
FFM_i(height, weight, age, f, r) ==
    FxDiv(FxMul(Lit(7374), FxMul(height.v, height.v)), f.v)
      + FxMul(Lit(1763), weight.v)
      - FxMul(Lit(1773), age * SC)
      + FxMul(Lit(1198), r.v)
      - Lit(24658)

calculate_ffm(height, weight, age, freq, react) ==
    IF \E i \in 1..Len(freq) : freq[i].v = 0 THEN Raise("ZeroDivisionError")
    ELSE Ok(NpMean([i \in 1..Len(freq) |-> Fin(FFM_i(height, weight, age, freq[i], react[i]))]))

\* calculate_resistance: numpy float64 arithmetic throughout
calculate_resistance(center, radius) ==
    LET a  == center[1]
        b  == center[2]
        r  == radius
        x2 == NpAdd(NpSqrt(NpSub(NpMul(r, r), NpMul(b, b))), a)
        x1 == NpAdd(NpNeg(NpSqrt(NpSub(NpMul(r, r), NpMul(b, b)))), a)
        Re == x2
        Ri == NpDiv(NpMul(x1, Re), NpSub(Re, x1))
    IN  [ri |-> Ri, re |-> Re]

\* calculate_body_water: 0.188 / bmi on Python floats, the rest in numpy
calculate_body_water(bmi, height, weight, re, ri) ==
    IF bmi.v = 0 THEN Raise("ZeroDivisionError")
    ELSE LET k_ecw == Fin(FxDiv(Lit(1880), bmi.v) + Lit(2883))
             k_icw == Fin(FxDiv(Lit(58758), bmi.v) + Lit(4194))
             base  == NpMul(Fin(FxMul(height.v, height.v)), NpSqrt(weight))
             ecw   == NpMul(k_ecw, NpPow23(NpDiv(base, re)))
             icw   == NpMul(k_icw, NpPow23(NpDiv(base, ri)))
             tbw   == NpAdd(ecw, icw)
         IN  Ok([ecw |-> ecw, icw |-> icw, tbw |-> tbw])

\* (mutant) get_summary with ri and re bound to each other's value
get_summary_swapped(self) ==
    [height |-> self["height"],
     weight |-> self["weight"],
     age    |-> self["age"],
     sex    |-> self["sex"],
     bmi    |-> self["bmi"],
     ri     |-> self["re"],
     re     |-> self["ri"],
     ffm    |-> self["ffm"],
     ecw    |-> self["ecw"],
     icw    |-> self["icw"],
     tbw    |-> self["tbw"]]

\* get_summary: the dict built from the attributes
get_summary(self) ==
    [height |-> self["height"],
     weight |-> self["weight"],
     age    |-> self["age"],
     sex    |-> self["sex"],
     bmi    |-> self["bmi"],
     ri     |-> self["ri"],
     re     |-> self["re"],
     ffm    |-> self["ffm"],
     ecw    |-> self["ecw"],
     icw    |-> self["icw"],
     tbw    |-> self["tbw"]]

\* '{:.3f}'.format(x): the text print_summary prints for a float or an int
DigitChar(d) ==
    CASE d = 0 -> "0" [] d = 1 -> "1" [] d = 2 -> "2" [] d = 3 -> "3"
      [] d = 4 -> "4" [] d = 5 -> "5" [] d = 6 -> "6" [] d = 7 -> "7"
      [] d = 8 -> "8" [] d = 9 -> "9"

RECURSIVE Digits(_)
Digits(n) ==
    IF n < 10 THEN <<DigitChar(n)>> ELSE Append(Digits(n \div 10), DigitChar(n % 10))

Format3f(x) ==
    IF IsNaN(x) THEN <<"n", "a", "n">>
    ELSE IF IsInf(x) THEN (IF x.v < 0 THEN <<"-">> ELSE <<>>) \o <<"i", "n", "f">>
    ELSE (IF x.v < 0 THEN <<"-">> ELSE <<>>)
           \o Digits(Abs(x.v) \div SC) \o <<".">>
           \o <<DigitChar((Abs(x.v) % SC) \div 10), DigitChar(Abs(x.v) % 10), "0">>

\* print_summary: the lines printed, in order
print_summary(self) ==
    << [label |-> "Wzrost", text |-> Format3f(self["height"])],
       [label |-> "Waga", text |-> Format3f(self["weight"])],
       [label |-> "Wiek", text |-> Format3f(Fin(self["age"] * SC))],
       [label |-> "Plec", text |-> self["sex"]],
       [label |-> "BMI", text |-> Format3f(self["bmi"])],
       [label |-> "Rezystancja Re", text |-> Format3f(self["re"])],
       [label |-> "Rezystancja Ri", text |-> Format3f(self["ri"])],
       [label |-> "Masa beztluszczowa", text |-> Format3f(self["ffm"])],
       [label |-> "Plyn pozakomorkowy", text |-> Format3f(self["ecw"])],
       [label |-> "Plyn wewnatrzkomorkowy", text |-> Format3f(self["icw"])],
       [label |-> "Calkowita zawartosc plynu", text |-> Format3f(self["tbw"])] >>

(***************************************************************************)
(* BIAnalysis.__init__: the order of its statements, and the attributes    *)
(* each statement reads and assigns.                                       *)
(***************************************************************************)
\* (mutants) __init__ with two statements exchanged
InitOrderBmiFirst ==
    << "read_file", "height", "calculate_bmi", "weight", "age", "sex",
       "extract_impedance_data", "get_freq_react_data", "calculate_radius",
       "calculate_ffm", "calculate_resistance", "calculate_body_water", "get_summary" >>

InitOrderSwapped ==
    << "read_file", "height", "weight", "age", "sex", "calculate_bmi",
       "extract_impedance_data", "get_freq_react_data", "calculate_resistance",
       "calculate_radius", "calculate_ffm", "calculate_body_water", "get_summary" >>

InitOrder ==
    << "read_file", "height", "weight", "age", "sex", "calculate_bmi",
       "extract_impedance_data", "get_freq_react_data", "calculate_radius",
       "calculate_ffm", "calculate_resistance", "calculate_body_water", "get_summary" >>

SummaryKeys ==
    {"height", "weight", "age", "sex", "bmi", "ri", "re", "ffm", "ecw", "icw", "tbw"}

Attrs ==
    SummaryKeys \cup {"impedance_data", "freq", "react", "radius", "center", "summary"}

Writes(stage) ==
    CASE stage \in {"height", "weight", "age", "sex"} -> {stage}
      [] stage = "calculate_bmi" -> {"bmi"}
      [] stage = "extract_impedance_data" -> {"impedance_data"}
      [] stage = "get_freq_react_data" -> {"freq", "react"}
      [] stage = "calculate_radius" -> {"radius", "center"}
      [] stage = "calculate_ffm" -> {"ffm"}
      [] stage = "calculate_resistance" -> {"ri", "re"}
      [] stage = "calculate_body_water" -> {"ecw", "icw", "tbw"}
      [] stage = "get_summary" -> {"summary"}
      [] OTHER -> {}

Reads(stage) ==
    CASE stage = "calculate_bmi" -> {"weight", "height"}
      [] stage = "get_freq_react_data" -> {"impedance_data"}
      [] stage = "calculate_radius" -> {"freq", "react"}
      [] stage = "calculate_ffm" -> {"freq", "height", "weight", "age", "react"}
      [] stage = "calculate_resistance" -> {"center", "radius"}
      [] stage = "calculate_body_water" -> {"bmi", "height", "weight", "re", "ri"}
      [] stage = "get_summary" -> SummaryKeys
      [] stage \in {"plot_cole_with_radius"} -> {"freq", "react", "center", "radius"}
      [] stage = "print_summary" -> SummaryKeys
      [] OTHER -> {}

(***************************************************************************)
(* Inputs: the path argument, whether it names a file, and the file.       *)
(***************************************************************************)
Paths ==
    { <<"x", ".", "m", "f", "u">>,
      <<"x">>,
      <<"x", ".", "t", "x", "t">>,
      <<".", "/", "d", "/", "x", ".", "m", "f", "u">>,
      <<"x", ".", "m", "f", "u", ".", "b", "a", "k">> }

Render(n) == IF n < 0 THEN <<"-">> \o Digits(-n) ELSE Digits(n)

Junk == <<"#">>

\* lines 2..5 of a well-formed file: height 100, weight 64, age 30, sex M
StdMeta ==
    << <<"H", " ", "1", "0", "0">>, <<"W", " ", "6", "4">>,
       <<"A", " ", "3", "0">>, <<"S", " ", "M">> >>

\* other shapes of the four lines, one line changed at a time
MetaVariants ==
    { [StdMeta EXCEPT ![1] = <<"H", " ", " ", "1", "0", "0">>],
      [StdMeta EXCEPT ![1] = <<"H", " ", "1", "0", "0", " ", "c", "m">>],
      [StdMeta EXCEPT ![1] = <<"H", " ", "1", "0", "0", ".", "5">>],
      [StdMeta EXCEPT ![1] = <<"H", " ", "0">>],
      [StdMeta EXCEPT ![2] = <<"W", "\t", "6", "4">>],
      [StdMeta EXCEPT ![2] = <<"W", " ", "0">>],
      [StdMeta EXCEPT ![3] = <<"A", " ", "3", "0", ".", "5">>],
      [StdMeta EXCEPT ![3] = <<"A", " ", " ", "3", "0">>],
      [StdMeta EXCEPT ![4] = <<"S">>],
      [StdMeta EXCEPT ![4] = <<"S", "\t", "M">>] }

Header(meta) ==
    <<Junk, Junk, meta[1], meta[2], meta[3], meta[4],
      Junk, Junk, Junk, Junk, Junk, Junk, Junk>>

\* a sample row: field 0, frequency, reactance
Row(p) == <<"0", ",">> \o Render(p[1]) \o <<",">> \o Render(p[2])

\* sweeps of (frequency, reactance) points, each on a circle of radius 5
\* about one of Centers
Sweeps ==
    { << <<13, 1>>, <<5, -3>>, <<10, -8>>, <<14, 0>>, <<7, 1>> >>,
      << <<10, 18>>, <<14, 10>>, <<6, 10>>, <<13, 17>>, <<7, 17>> >>,
      << <<13, -1>>, <<5, -5>>, <<10, -10>>, <<14, -2>>, <<7, -1>> >>,
      << <<6, 1>>, <<8, -3>>, <<3, -8>>, <<7, 0>>, <<6, -7>> >>,
      << <<7, 1>>, <<9, -3>>, <<4, -8>>, <<8, 0>>, <<1, -7>> >>,
      << <<0, 0>>, <<8, 0>>, <<7, 1>>, <<4, -8>>, <<9, -3>> >> }

StdSweep == << <<13, 1>>, <<5, -3>>, <<10, -8>>, <<14, 0>>, <<7, 1>> >>

\* rows that are not well formed: too few fields, a field that is no number
BadRows == { <<"0", ",", "1", "3">>, <<"0", ",", "x", ",", "1">>, <<"0", ",", "1", "3", ",">> }

\* the lines of a file with k sample rows that ends with a newline
FullFile(meta, sweep, k) ==
    Header(meta) \o [i \in 1..k |-> Row(sweep[i])] \o << <<>> >>

\* the files read: every file of up to MaxSamples rows cut after any line,
\* the variants of the metadata lines, and files with a malformed row
Files ==
    {SubSeq(FullFile(StdMeta, sw, k), 1, n) :
        <<sw, k, n>> \in {t \in Sweeps \X (0..MaxSamples) \X (1..(14 + MaxSamples)) :
                            t[3] <= 14 + t[2]}}
      \cup {FullFile(m, StdSweep, MaxSamples) : m \in MetaVariants}
      \cup {Header(StdMeta) \o <<Row(StdSweep[1]), b, Row(StdSweep[2])>> \o << <<>> >> :
              b \in BadRows}

\* the text of a file: its lines joined by newlines
RECURSIVE Content(_)
Content(ls) ==
    IF Len(ls) = 1 THEN ls[1]
    ELSE Content(SubSeq(ls, 1, Len(ls) - 1)) \o <<"\n">> \o ls[Len(ls)]

ErrorMessage == "Zly format pliku lub plik nie istnieje"

(***************************************************************************)
(* State.                                                                  *)
(***************************************************************************)
VARIABLES
    path,        \* sys.argv[1]
    isfile,      \* os.path.isfile(path)
    pc,          \* "main", "init", "plot", "print", "done", "crashed"
    ip,          \* the statement of __init__ to run next (index in InitOrder)
    lines,       \* the lines of the file at path
    data,        \* the local variable data of __init__
    self,        \* the attributes of the BIAnalysis object assigned so far
    nwrites,     \* how many times each attribute has been assigned
    ier,         \* the flag leastsq returned, -1 before the fit
    err,         \* the exception that ended the run, "none" if none
    trace,       \* the methods and statements started, in order
    out,         \* what was printed
    calls,       \* calls of get_summary made after construction
    lastSummary  \* what the last such call returned

vars ==
    <<path, isfile, pc, ip, lines, data, self, nwrites, ier, err, trace, out,
      calls, lastSummary>>

NoAttrs == [a \in {} |-> 0]

Init ==
    /\ path \in Paths
    /\ isfile \in BOOLEAN
    /\ pc = "main"
    /\ ip = 1
    /\ lines = <<>>
    /\ data = <<>>
    /\ self = NoAttrs
    /\ nwrites = [a \in Attrs |-> 0]
    /\ ier = -1
    /\ err = "none"
    /\ trace = <<>>
    /\ out = <<>>
    /\ calls = 0
    /\ lastSummary = NoAttrs

(***************************************************************************)
(* Steps shared by the statements of __init__.                             *)
(***************************************************************************)
At(stage) == pc = "init" /\ ip <= Len(InitOrder) /\ InitOrder[ip] = stage

Started(stage) == trace' = Append(trace, stage)

\* an exception leaves __init__ and ends the process: nothing is assigned
Crash(e) ==
    /\ pc' = "crashed"
    /\ err' = e
    /\ UNCHANGED <<ip, self, nwrites>>

\* the statement assigns the attributes of new and control moves on
Assign(new) ==
    /\ self' = new @@ self
    /\ nwrites' = [a \in Attrs |-> IF a \in DOMAIN new THEN nwrites[a] + 1 ELSE nwrites[a]]
    /\ ip' = ip + 1
    /\ pc' = IF ip = Len(InitOrder) THEN "plot" ELSE "init"
    /\ err' = err

\* self.<a> for an a not yet assigned raises AttributeError
Missing(stage) == ~(Reads(stage) \subseteq DOMAIN self)

(***************************************************************************)
(* main.py                                                                 *)
(***************************************************************************)
Main ==
    /\ pc = "main"
    /\ IF ~isfile
       THEN /\ out' = Append(out, ErrorMessage)
            /\ pc' = "done"
            /\ err' = err
       ELSE IF Len(Split(path, ".")) < 2
       THEN /\ pc' = "crashed"
            /\ err' = "IndexError"
            /\ out' = out
       ELSE IF Split(path, ".")[2] # <<"m", "f", "u">>
       THEN /\ out' = Append(out, ErrorMessage)
            /\ pc' = "done"
            /\ err' = err
       ELSE /\ pc' = "init"
            /\ out' = out
            /\ err' = err
    /\ UNCHANGED <<path, isfile, ip, lines, data, self, nwrites, ier, trace, calls, lastSummary>>

(***************************************************************************)
(* BIAnalysis.__init__, statement by statement.                            *)
(***************************************************************************)
ReadFile ==
    /\ At("read_file")
    /\ Started("read_file")
    /\ \E f \in Files :
          /\ lines' = f
          /\ data' = read_file(Content(f))
    /\ Assign(NoAttrs)
    /\ UNCHANGED <<path, isfile, ier, out, calls, lastSummary>>

SetHeight ==
    /\ At("height")
    /\ Started("height")
    /\ LET r == FloatField(data, 2)
       IN  IF r.err # "none" THEN Crash(r.err) ELSE Assign("height" :> r.val)
    /\ UNCHANGED <<path, isfile, lines, data, ier, out, calls, lastSummary>>

SetWeight ==
    /\ At("weight")
    /\ Started("weight")
    /\ LET r == FloatField(data, 3)
       IN  IF r.err # "none" THEN Crash(r.err) ELSE Assign("weight" :> r.val)
    /\ UNCHANGED <<path, isfile, lines, data, ier, out, calls, lastSummary>>

SetAge ==
    /\ At("age")
    /\ Started("age")
    /\ LET r == IntField(data, 4)
       IN  IF r.err # "none" THEN Crash(r.err) ELSE Assign("age" :> r.val)
    /\ UNCHANGED <<path, isfile, lines, data, ier, out, calls, lastSummary>>

SetSex ==
    /\ At("sex")
    /\ Started("sex")
    /\ LET r == SecondField(data, 5)
       IN  IF r.err # "none" THEN Crash(r.err) ELSE Assign("sex" :> r.val)
    /\ UNCHANGED <<path, isfile, lines, data, ier, out, calls, lastSummary>>

CalculateBmi ==
    /\ At("calculate_bmi")
    /\ Started("calculate_bmi")
    /\ IF Missing("calculate_bmi") THEN Crash("AttributeError")
       ELSE LET r == calculate_bmi(self["height"], self["weight"])
            IN  IF r.err # "none" THEN Crash(r.err) ELSE Assign("bmi" :> r.val)
    /\ UNCHANGED <<path, isfile, lines, data, ier, out, calls, lastSummary>>

ExtractImpedanceData ==
    /\ At("extract_impedance_data")
    /\ Started("extract_impedance_data")
    /\ Assign("impedance_data" :> extract_impedance_data(data))
    /\ UNCHANGED <<path, isfile, lines, data, ier, out, calls, lastSummary>>

GetFreqReactData ==
    /\ At("get_freq_react_data")
    /\ Started("get_freq_react_data")
    /\ IF Missing("get_freq_react_data") THEN Crash("AttributeError")
       ELSE LET r == get_freq_react_data(self["impedance_data"])
            IN  IF r.err # "none" THEN Crash(r.err)
                ELSE Assign("freq" :> r.val.freq @@ "react" :> r.val.react)
    /\ UNCHANGED <<path, isfile, lines, data, ier, out, calls, lastSummary>>

CalculateRadius ==
    /\ At("calculate_radius")
    /\ Started("calculate_radius")
    /\ IF Missing("calculate_radius")
       THEN Crash("AttributeError") /\ ier' = ier
       ELSE \E r \in calculate_radius(self["freq"], self["react"]) :
               IF r.err # "none" THEN Crash(r.err) /\ ier' = ier
               ELSE /\ Assign("radius" :> r.val.radius @@ "center" :> r.val.center)
                    /\ ier' = r.val.ier
    /\ UNCHANGED <<path, isfile, lines, data, out, calls, lastSummary>>

CalculateFfm ==
    /\ At("calculate_ffm")
    /\ Started("calculate_ffm")
    /\ IF Missing("calculate_ffm") THEN Crash("AttributeError")
       ELSE LET r == calculate_ffm(self["height"], self["weight"], self["age"],
                                   self["freq"], self["react"])
            IN  IF r.err # "none" THEN Crash(r.err) ELSE Assign("ffm" :> r.val)
    /\ UNCHANGED <<path, isfile, lines, data, ier, out, calls, lastSummary>>

CalculateResistance ==
    /\ At("calculate_resistance")
    /\ Started("calculate_resistance")
    /\ IF Missing("calculate_resistance") THEN Crash("AttributeError")
       ELSE LET r == calculate_resistance(self["center"], self["radius"])
            IN  Assign("ri" :> r.ri @@ "re" :> r.re)
    /\ UNCHANGED <<path, isfile, lines, data, ier, out, calls, lastSummary>>

CalculateBodyWater ==
    /\ At("calculate_body_water")
    /\ Started("calculate_body_water")
    /\ IF Missing("calculate_body_water") THEN Crash("AttributeError")
       ELSE LET r == calculate_body_water(self["bmi"], self["height"], self["weight"],
                                          self["re"], self["ri"])
            IN  IF r.err # "none" THEN Crash(r.err)
                ELSE Assign("ecw" :> r.val.ecw @@ "icw" :> r.val.icw @@ "tbw" :> r.val.tbw)
    /\ UNCHANGED <<path, isfile, lines, data, ier, out, calls, lastSummary>>

GetSummary ==
    /\ At("get_summary")
    /\ Started("get_summary")
    /\ IF Missing("get_summary") THEN Crash("AttributeError")
       ELSE Assign("summary" :> get_summary(self))
    /\ UNCHANGED <<path, isfile, lines, data, ier, out, calls, lastSummary>>

(***************************************************************************)
(* main.py after construction, and a caller's get_summary.                 *)
(***************************************************************************)
PlotColeWithRadius ==
    /\ pc = "plot"
    /\ Started("plot_cole_with_radius")
    /\ IF Missing("plot_cole_with_radius")
       THEN pc' = "crashed" /\ err' = "AttributeError"
       ELSE pc' = "print" /\ err' = err
    /\ UNCHANGED <<path, isfile, ip, lines, data, self, nwrites, ier, out, calls, lastSummary>>

PrintSummary ==
    /\ pc = "print"
    /\ Started("print_summary")
    /\ IF Missing("print_summary")
       THEN pc' = "crashed" /\ err' = "AttributeError" /\ out' = out
       ELSE pc' = "done" /\ err' = err /\ out' = out \o print_summary(self)
    /\ UNCHANGED <<path, isfile, ip, lines, data, self, nwrites, ier, calls, lastSummary>>

CallGetSummary ==
    /\ pc \in {"plot", "print", "done"}
    /\ "summary" \in DOMAIN self
    /\ calls < MaxCalls
    /\ calls' = calls + 1
    /\ lastSummary' = get_summary(self)
    /\ UNCHANGED <<path, isfile, pc, ip, lines, data, self, nwrites, ier, err, trace, out>>

Next ==
    \/ Main
    \/ ReadFile
    \/ SetHeight
    \/ SetWeight
    \/ SetAge
    \/ SetSex
    \/ CalculateBmi
    \/ ExtractImpedanceData
    \/ GetFreqReactData
    \/ CalculateRadius
    \/ CalculateFfm
    \/ CalculateResistance
    \/ CalculateBodyWater
    \/ GetSummary
    \/ PlotColeWithRadius
    \/ PrintSummary
    \/ CallGetSummary

Spec == Init /\ [][Next]_vars

(***************************************************************************)
(* Properties.                                                             *)
(***************************************************************************)
\* the position of a stage in trace, 0 if it has not started
Pos(stage) ==
    IF \E i \in 1..Len(trace) : trace[i] = stage
    THEN CHOOSE i \in 1..Len(trace) : trace[i] = stage
    ELSE 0

\* b has started only if a started before it
Before(a, b) == Pos(b) > 0 => (Pos(a) > 0 /\ Pos(a) < Pos(b))

\* the extension of a path: what follows the last '.' of its last component
Ext(p) ==
    LET comps == Split(p, "/")
        parts == Split(comps[Len(comps)], ".")
    IN  IF Len(parts) < 2 THEN <<>> ELSE parts[Len(parts)]

ValidPath == isfile /\ Ext(path) = <<"m", "f", "u">>

\* C1: for every path that names no existing file or whose extension is not
\* 'mfu', the program prints the fixed error message and terminates normally
\* without constructing BIAnalysis; the pipeline runs only for an existing
\* file whose extension is 'mfu'.
C1_CliValidation ==
    (pc # "main" /\ ~ValidPath) =>
        /\ pc = "done"
        /\ err = "none"
        /\ out = <<ErrorMessage>>
        /\ trace = <<>>

\* C2 (as claimed): no Body-Composition Estimator computation (BMI, FFM) runs
\* before the Sweep Parser has produced the sweep and the Resistance
\* Extractor has produced Ri/Re.
C2_EstimatorAfterExtractor ==
    ValidPath =>
    /\ Before("get_freq_react_data", "calculate_bmi")
    /\ Before("calculate_resistance", "calculate_bmi")
    /\ Before("get_freq_react_data", "calculate_ffm")
    /\ Before("calculate_resistance", "calculate_ffm")

\* C2 (amended): the stages run at most once each and strictly in the order
\* read_file, height, weight, age, sex, calculate_bmi,
\* extract_impedance_data, get_freq_react_data, calculate_radius,
\* calculate_ffm, calculate_resistance, calculate_body_water, get_summary
\* (so parse -> fit -> extract Ri/Re -> body water -> report, with BMI
\* computed before the sweep is parsed and FFM before Ri/Re are extracted),
\* and a stage starts only when the stage before it has assigned its output.
C2_StageOrder ==
    /\ \A i, j \in 1..Len(trace) : trace[i] = trace[j] => i = j
    /\ Before("read_file", "height")
    /\ Before("height", "weight")
    /\ Before("weight", "age")
    /\ Before("age", "sex")
    /\ Before("sex", "calculate_bmi")
    /\ Before("calculate_bmi", "extract_impedance_data")
    /\ Before("extract_impedance_data", "get_freq_react_data")
    /\ Before("get_freq_react_data", "calculate_radius")
    /\ Before("calculate_radius", "calculate_ffm")
    /\ Before("calculate_ffm", "calculate_resistance")
    /\ Before("calculate_resistance", "calculate_body_water")
    /\ Before("calculate_body_water", "get_summary")
    /\ \A i \in 2..Len(trace) : Writes(trace[i - 1]) \subseteq DOMAIN self

C2_Witness ==
    /\ pc = "done"
    /\ Pos("get_summary") > 0
    /\ Pos("calculate_bmi") < Pos("get_freq_react_data")
    /\ Pos("calculate_ffm") < Pos("calculate_resistance")

\* the value of comma-separated field j (from 0) of a line
FieldValue(line, j) == ParseFloat(Split(line, ",")[j + 1])

WellFormedRow(line) ==
    /\ Len(Split(line, ",")) >= 3
    /\ FieldValue(line, 1).err = "none"
    /\ FieldValue(line, 2).err = "none"

\* the number of samples of a file of N lines: max(0, N - 14)
NumSamples == IF Len(lines) > 14 THEN Len(lines) - 14 ELSE 0

\* C3: for a file of N lines whose rows at index 13..N-2 are well formed the
\* parser yields exactly one sample per line at index 13 up to, excluding,
\* the final line, in file order: freq[k] is field 1 and react[k] field 2 of
\* line 13+k, and len(freq) = len(react) = max(0, N - 14).
C3_SweepParsing ==
    /\ ("freq" \in DOMAIN self) =>
          /\ Len(self["freq"]) = NumSamples
          /\ Len(self["react"]) = NumSamples
          /\ \A k \in 1..NumSamples :
                /\ self["freq"][k] = FieldValue(lines[13 + k], 1).val
                /\ self["react"][k] = FieldValue(lines[13 + k], 2).val
    /\ (/\ Pos("get_freq_react_data") > 0
        /\ \A k \in 1..NumSamples : WellFormedRow(lines[13 + k]))
          => "freq" \in DOMAIN self

\* a file whose final line is itself a row, which contributes no sample
C3_Witness ==
    /\ "freq" \in DOMAIN self
    /\ Len(self["freq"]) >= 2
    /\ self["freq"][1] # self["freq"][2]
    /\ WellFormedRow(lines[Len(lines)])

\* line.split(): the pieces between runs of whitespace, none empty
RECURSIVE TokensFrom(_, _, _, _)
TokensFrom(s, i, cur, acc) ==
    IF i > Len(s) THEN (IF cur = <<>> THEN acc ELSE Append(acc, cur))
    ELSE IF s[i] \in Whitespace
         THEN TokensFrom(s, i + 1, <<>>, IF cur = <<>> THEN acc ELSE Append(acc, cur))
         ELSE TokensFrom(s, i + 1, Append(cur, s[i]), acc)

Tokens(s) == TokensFrom(s, 1, <<>>, <<>>)

\* lines 2..5 each hold a label and a value separated by whitespace, the
\* values of lines 2..4 being numbers
MetaWellFormed ==
    /\ Len(lines) >= 6
    /\ \A n \in 3..6 : Len(Tokens(lines[n])) >= 2
    /\ ParseFloat(Tokens(lines[3])[2]).err = "none"
    /\ ParseFloat(Tokens(lines[4])[2]).err = "none"
    /\ ParseInt(Tokens(lines[5])[2]).err = "none"

\* C4: height, weight, age and sex are the second whitespace-separated token
\* of lines 2, 3, 4 and 5, whichever whitespace separates the tokens and
\* whatever tokens follow; height and weight as floats, age as an integer,
\* sex as the string.
C4_MetadataTokens ==
    (ValidPath /\ MetaWellFormed) =>
        /\ Pos("height") > 0 =>
              /\ "height" \in DOMAIN self
              /\ self["height"] = ParseFloat(Tokens(lines[3])[2]).val
        /\ Pos("weight") > 0 =>
              /\ "weight" \in DOMAIN self
              /\ self["weight"] = ParseFloat(Tokens(lines[4])[2]).val
        /\ Pos("age") > 0 =>
              /\ "age" \in DOMAIN self
              /\ self["age"] = ParseInt(Tokens(lines[5])[2]).val
        /\ Pos("sex") > 0 =>
              /\ "sex" \in DOMAIN self
              /\ self["sex"] = Tokens(lines[6])[2]

\* C5: a file of fewer than 14 lines fails during parsing, before the circle
\* fit or any estimator stage starts, and no summary is produced.
C5_TruncatedInput ==
    (ValidPath /\ lines # <<>> /\ Len(lines) < 14) =>
        /\ Pos("calculate_radius") = 0
        /\ Pos("get_freq_react_data") > 0 => pc = "crashed"
        /\ "summary" \notin DOMAIN self

\* C6: when the solver reports that it did not converge the run aborts, and
\* no center or radius of a non-converged solve is stored.
C6_NonConvergedRejected ==
    (ValidPath /\ ier # -1 /\ ier \notin Converged) =>
        /\ pc = "crashed"
        /\ "center" \notin DOMAIN self
        /\ "radius" \notin DOMAIN self

\* a converged fit of a sweep of at least three samples, run on a path the
\* entry point is meant to accept
WellPosedFit ==
    /\ ValidPath
    /\ ier \in Converged
    /\ "freq" \in DOMAIN self
    /\ Len(self["freq"]) >= 3

\* the fitted circle does not meet the axis: r^2 < b^2
NonIntersecting ==
    /\ {"center", "radius"} \subseteq DOMAIN self
    /\ FxMul(self["radius"].v, self["radius"].v)
         < FxMul(self["center"][2].v, self["center"][2].v)

\* C7: for a fitted circle with r^2 < b^2, calculate_resistance raises and
\* the run aborts; NaN Ri and Re are never returned and no later stage runs.
\* (Stated for well-posed fits.)
C7_NonIntersectingRejected ==
    (WellPosedFit /\ NonIntersecting /\ Pos("calculate_resistance") > 0) =>
        /\ pc = "crashed"
        /\ "ri" \notin DOMAIN self
        /\ "re" \notin DOMAIN self

PositiveReal(x) == IsFin(x) /\ x.v > 0

\* C8: a run either fails and yields no summary, or yields a summary in which
\* BMI, FFM, ECW, ICW and TBW are all positive reals.  (Stated for
\* well-posed fits.)
C8_AllOrNothing ==
    /\ err # "none" => "summary" \notin DOMAIN self
    /\ (WellPosedFit /\ "summary" \in DOMAIN self) =>
          \A k \in {"bmi", "ffm", "ecw", "icw", "tbw"} : PositiveReal(self["summary"][k])

\* m has exactly the eleven keys, each bound to the attribute of that name
SummaryOf(m, obj) ==
    /\ DOMAIN m = SummaryKeys
    /\ \A k \in SummaryKeys : m[k] = obj[k]
    /\ m["tbw"] = NpAdd(obj["ecw"], obj["icw"])

\* C9: get_summary returns a mapping with exactly the eleven keys, each bound
\* to the value the upstream stage stored (tbw = ecw + icw); it leaves every
\* attribute unchanged, and every call returns the same mapping.
C9_SummaryReadOnly ==
    [][ /\ ("summary" \in DOMAIN self') => SummaryOf(self'["summary"], self')
        /\ (calls' # calls) =>
              /\ self' = self
              /\ SummaryOf(lastSummary', self)
              /\ lastSummary' = self["summary"]
              /\ calls > 0 => lastSummary' = lastSummary ]_vars

C9_Witness ==
    /\ calls >= 2
    /\ pc = "done"
    /\ lastSummary["ri"] # lastSummary["re"]

\* C10: at every step of __init__ each attribute the next stage reads has
\* been assigned by an earlier step, each attribute is assigned at most once
\* (exactly once when construction completes), and no stage reassigns an
\* attribute written by an earlier stage.
C10_AssignedBeforeRead ==
    /\ err # "AttributeError"
    /\ (pc = "init" /\ ip <= Len(InitOrder)) => Reads(InitOrder[ip]) \subseteq DOMAIN self
    /\ pc = "plot" => Reads("plot_cole_with_radius") \subseteq DOMAIN self
    /\ pc = "print" => Reads("print_summary") \subseteq DOMAIN self
    /\ \A a \in Attrs : nwrites[a] = (IF a \in DOMAIN self THEN 1 ELSE 0)
    /\ "summary" \in DOMAIN self => DOMAIN self = Attrs

C10_Witness ==
    /\ pc = "done"
    /\ \A a \in Attrs : nwrites[a] = 1

====
